---- MODULE Spec2Model ----
(***************************************************************************)
(* A model of the spatial index (Space) of the arcs CAD library and of the *)
(* two systems (SyncBounds, SpatialRelation) that keep it in step with the *)
(* DrawingObject storage of a specs World.                                 *)
(*                                                                         *)
(* Coordinates are integers.  A BoundingBox is a pair of corners, a Rect   *)
(* (the quadtree's TypedRect<f32>) is an origin and a size.                *)
(***************************************************************************)
EXTENDS Integers, Sequences, FiniteSets, TLC

VARIABLES
    space,        \* the Space resource: quadtree, ids, and whether a call panicked
    lastCall,     \* the Space::modify call made last, if the last call on Space was one
    entities,     \* the World's entity allocator: generation and liveness of each raw id
    drawing,      \* storage of DrawingObject: raw id -> geometry
    cache,        \* storage of BoundingBox: raw id -> box
    syncBounds,   \* SyncBounds: unread DrawingObject events and the two flag sets
    spatialRel,   \* SpatialRelation: unread BoundingBox events and the two flag sets
    pc,           \* position in the update cycle
    names,        \* storage of Name: raw id -> name
    name_table,   \* the NameTable resource: name -> Entity
    bookkeeping,  \* NameTableBookkeeping: unread Name events and the inserted set
    mode,         \* the demo's current State and its nested sub-state
    selected,     \* storage of Selected: the raw ids that hold it
    buffer        \* an UndoRedoBuffer: its change sets and cursor

vars == <<space, lastCall, entities, drawing, cache, syncBounds, spatialRel, pc,
          names, name_table, bookkeeping, mode, selected, buffer>>

\* the state of the name table, the demo's modes and the undo buffer
AppVars == <<names, name_table, bookkeeping, mode, selected, buffer>>

----------------------------------------------------------------------------
(* Bounds of the model *)

MaxItemId == 3      \* item ids a quadtree hands out before the model stops inserting
MaxGen    == 1      \* highest generation of an entity (generations start at 1)
MaxRawId  == 1      \* highest raw entity id (index)
MaxEvents == 2      \* unread events a channel holds before the model stops editing
MaxCoord  == 2      \* highest coordinate of the points given to the algorithms
MaxPoints == 4      \* longest sequence of points given to around and simplify
MaxTol    == 1      \* largest tolerance given to simplify
MaxQuarter == 4     \* largest start and sweep angle of an arc, in quarter turns
MaxRadius == 2      \* largest radius of an arc
MaxSweep  == 12     \* largest sweep angle of an approximated arc, in units of pi/6

WORLD_RADIUS == 1000000

\* The approx_epsilon of euclid's ApproxEq for f64 is 1e-6.  The lines given
\* to closest_point lie on a grid whose step is 0.5e-6, so it is 2 steps.
APPROX_EPSILON == 2

RawIds == 0..MaxRawId
None == "None"

----------------------------------------------------------------------------
(* Small maps *)

EmptyMap == [k \in {} |-> None]
MapPut(f, k, v) == [x \in (DOMAIN f) \cup {k} |-> IF x = k THEN v ELSE f[x]]
MapRemove(f, k) == [x \in (DOMAIN f) \ {k} |-> f[x]]

Min(a, b) == IF a <= b THEN a ELSE b
Max(a, b) == IF a >= b THEN a ELSE b
Abs(a) == IF a < 0 THEN 0 - a ELSE a

----------------------------------------------------------------------------
(* Points, bounding boxes and geometry *)

Pt(x, y) == [x |-> x, y |-> y]

\* BoundingBox::new: the box around two points, corners normalised
BoundingBoxNew(first, second) ==
    [bottom_left |-> Pt(Min(first.x, second.x), Min(first.y, second.y)),
     top_right   |-> Pt(Max(first.x, second.x), Max(first.y, second.y))]

width(bb)  == bb.top_right.x - bb.bottom_left.x
height(bb) == bb.top_right.y - bb.bottom_left.y

\* Geometry is a tagged union; arcs only appear here as full circles
GLine(s, e)   == [kind |-> "Line", start |-> s, end |-> e]
GPoint(p)     == [kind |-> "Point", location |-> p]

\* Bounded::bounding_box for Geometry
bounding_box(g) ==
    IF g.kind = "Line" THEN BoundingBoxNew(g.start, g.end)
    ELSE BoundingBoxNew(g.location, g.location)

\* Bounded::bounding_box of Arc::from_centre_radius(centre, r, 0, 2*pi):
\* start and end are both centre + (r, 0) and all four axis angles are
\* contained in [0, 2*pi], so all four updates are applied, in this order.
CircleBoundingBox(centre, r) ==
    LET start == Pt(centre.x + r, centre.y)
        b0 == BoundingBoxNew(start, start)
        b1 == BoundingBoxNew(b0.bottom_left, Pt(centre.x + r, centre.y))
        b2 == BoundingBoxNew(b1.bottom_left, Pt(centre.x, centre.y + r))
        b3 == BoundingBoxNew(b2.top_right, Pt(centre.x - r, centre.y))
        b4 == BoundingBoxNew(b3.top_right, Pt(centre.x, centre.y - r))
    IN  b4

----------------------------------------------------------------------------
(* Rectangles of the quadtree (euclid TypedRect<f32>) *)

RECURSIVE F32Ulp(_)
F32Ulp(a) == IF a < 16777216 THEN 1 ELSE 2 * F32Ulp(a \div 2)

\* `as f32` on an integer-valued f64: round to 24 significant bits, ties to even
AsF32(v) ==
    LET a == Abs(v)
        u == F32Ulp(a)
        q == a \div u
        r == a % u
        n == IF 2 * r < u THEN q
             ELSE IF 2 * r > u THEN q + 1
             ELSE IF q % 2 = 0 THEN q ELSE q + 1
    IN  IF v < 0 THEN 0 - (n * u) ELSE n * u

\* Spatial::aabb for a BoundingBox: origin at the bottom left, then the size
aabb(bb) ==
    [origin |-> Pt(AsF32(bb.bottom_left.x), AsF32(bb.bottom_left.y)),
     size   |-> [width |-> AsF32(width(bb)), height |-> AsF32(height(bb))]]

min_x(r) == r.origin.x
min_y(r) == r.origin.y
max_x(r) == r.origin.x + r.size.width
max_y(r) == r.origin.y + r.size.height

is_empty(r) == r.size.width = 0 \/ r.size.height = 0

\* The rectangle lies inside the other one (closed comparison)
RectInside(outer, r) ==
    /\ min_x(outer) <= min_x(r) /\ max_x(r) <= max_x(outer)
    /\ min_y(outer) <= min_y(r) /\ max_y(r) <= max_y(outer)

\* TypedRect::contains_rect: always true when the argument is empty
contains_rect(outer, r) == is_empty(r) \/ RectInside(outer, r)

\* TypedRect::intersects
intersects(a, b) ==
    /\ min_x(a) < max_x(b) /\ min_x(b) < max_x(a)
    /\ min_y(a) < max_y(b) /\ min_y(b) < max_y(a)

----------------------------------------------------------------------------
(* The quadtree, as Space uses it *)

SpatialEntityNew(bounds, entity) == [bounds |-> bounds, entity |-> entity]

\* QuadTree::new: an empty tree over the given rectangle; item ids start at 0
QuadTreeNew(size) == [bb |-> size, id |-> 0, elements |-> EmptyMap]

\* QuadTree::insert: None when the item does not lie inside the tree's
\* rectangle, otherwise the item is stored under the next item id
QuadTreeInsert(qt, spatial) ==
    IF RectInside(qt.bb, aabb(spatial.bounds))
    THEN [tree |-> [qt EXCEPT !.id = @ + 1,
                              !.elements = MapPut(@, qt.id, spatial)],
          ret  |-> qt.id, some |-> TRUE]
    ELSE [tree |-> qt, ret |-> None, some |-> FALSE]

\* QuadTree::remove: forgets the item with that id, if there is one
QuadTreeRemove(qt, item_id) == [qt EXCEPT !.elements = MapRemove(@, item_id)]

\* QuadTree::query: the items whose rectangle intersects the query
QuadTreeQuery(qt, rect) ==
    {i \in DOMAIN qt.elements : intersects(aabb(qt.elements[i].bounds), rect)}

----------------------------------------------------------------------------
(* Space *)

default_tree ==
    QuadTreeNew(aabb(BoundingBoxNew(Pt(0 - WORLD_RADIUS, 0 - WORLD_RADIUS),
                                    Pt(WORLD_RADIUS, WORLD_RADIUS))))

tree_with_world_size(size) == QuadTreeNew(size)

SpaceDefault == [quadtree |-> default_tree, ids |-> EmptyMap, panicked |-> "no"]

\* Space::insert_entity: the new space and the item id; panics on None
insert_entity(sp, spatial) ==
    LET r == QuadTreeInsert(sp.quadtree, spatial)
    IN  IF r.some
        THEN [space |-> [sp EXCEPT !.quadtree = r.tree], id |-> r.ret,
              panic |-> FALSE]
        ELSE [space |-> [sp EXCEPT !.panicked = "insert"], id |-> None,
              panic |-> TRUE]

\* Space::modify_entity
modify_entity(sp, spatial) ==
    LET item_id == sp.ids[spatial.entity]
        removed == [sp EXCEPT !.quadtree = QuadTreeRemove(@, item_id)]
    IN  insert_entity(removed, spatial)

\* Space::iter yields the tree's elements (a hash map) in no particular order
iter(sp) == {sp.quadtree.elements[i] : i \in DOMAIN sp.quadtree.elements}

len(sp) == Cardinality(DOMAIN sp.quadtree.elements)

\* a clear that falls back to the default world instead of the current one
clear_default_world(sp) ==
    [sp EXCEPT !.quadtree = default_tree, !.ids = EmptyMap]

\* Space::clear
clear(sp) ==
    [sp EXCEPT !.quadtree = tree_with_world_size(sp.quadtree.bb),
               !.ids = EmptyMap]

\* The loop of Space::resize: every collected element is inserted again, in
\* whichever order the collection came out of the hash map.  The result is
\* the set of spaces the loop can end in.
RECURSIVE Reinsert(_, _, _)
Reinsert(sp, old, todo) ==
    IF todo = {} THEN {sp}
    ELSE UNION {
        LET r == insert_entity(sp, old[i])
        IN  IF r.panic THEN {r.space}
            ELSE Reinsert([r.space EXCEPT !.ids = MapPut(@, old[i].entity, r.id)],
                          old, todo \ {i})
        : i \in todo }

\* Space::resize
resize(sp, size) ==
    IF contains_rect(sp.quadtree.bb, size)
    THEN {[sp EXCEPT !.panicked = "resize"]}
    ELSE LET old     == sp.quadtree.elements
             cleared == clear(sp)
             fresh   == [cleared EXCEPT !.quadtree = tree_with_world_size(size)]
         IN  Reinsert(fresh, old, DOMAIN old)

\* The part of Space::modify that follows the resize
ModifyTail(sp, spatial) ==
    IF sp.panicked # "no" THEN sp
    ELSE LET r == IF spatial.entity \in DOMAIN sp.ids
                  THEN modify_entity(sp, spatial)
                  ELSE insert_entity(sp, spatial)
         IN  IF r.panic THEN r.space
             ELSE [r.space EXCEPT !.ids =
                      IF spatial.entity \in DOMAIN @ THEN @
                      ELSE MapPut(@, spatial.entity, r.id)]

\* Space::modify: the set of spaces the call can end in
modify(sp, spatial) ==
    LET grown == IF ~contains_rect(sp.quadtree.bb, aabb(spatial.bounds))
                 THEN resize(sp, aabb(spatial.bounds))
                 ELSE {sp}
    IN  {ModifyTail(g, spatial) : g \in grown}

\* Space::remove
remove(sp, entity) ==
    IF entity \in DOMAIN sp.ids
    THEN [sp EXCEPT !.quadtree = QuadTreeRemove(@, sp.ids[entity]),
                    !.ids = MapRemove(@, entity)]
    ELSE sp

\* Space::remove_by_id: removes the first entity of ids (a hash map) whose
\* index is id; the result is the set of spaces the call can end in
remove_by_id(sp, id) ==
    LET found == {ent \in DOMAIN sp.ids : ent.id = id}
    IN  IF found = {} THEN {sp} ELSE {remove(sp, ent) : ent \in found}

\* Space::query_region
query_region(sp, region) ==
    {sp.quadtree.elements[i] : i \in QuadTreeQuery(sp.quadtree, aabb(region))}

\* Space::query_point
query_point(sp, point, radius) ==
    query_region(sp, CircleBoundingBox(point, radius))

----------------------------------------------------------------------------
(* Inputs *)

LineA    == GLine(Pt(0, 0), Pt(2, 1))
LineFar  == GLine(Pt(2000002, 1), Pt(2000000, 0))
LineHuge == GLine(Pt(0 - 2000000, 0 - 2000000), Pt(2000000, 2000000))
PointP   == GPoint(Pt(5, 5))

Geometries == {LineA, PointP, LineFar, LineHuge}
Boxes == {bounding_box(g) : g \in Geometries}

\* the geometries the World's edits draw from
WorldGeometries == {LineA, PointP}

\* specs::Entity: a raw id (index) and a generation
Entity(id, gen) == [id |-> id, gen |-> gen]
EntitySet == {Entity(i, g) : i \in RawIds, g \in 1..MaxGen}

NoCall == [op |-> "none"]

----------------------------------------------------------------------------
(* The World: entities, the two storages and their event channels *)

Inserted(id) == [kind |-> "Inserted", id |-> id]
Modified(id) == [kind |-> "Modified", id |-> id]
Removed(id)  == [kind |-> "Removed", id |-> id]

is_alive(i) == entities[i].alive
EntityAt(i) == Entity(i, entities[i].gen)

\* SyncBounds::new and SpatialRelation::new: a reader with nothing to read,
\* empty flag sets
SyncBoundsNew == [changes |-> <<>>, to_update |-> {}, removed |-> {}]
SpatialRelationNew ==
    [changes |-> <<>>, to_insert |-> {}, to_update |-> {}, seen |-> {}]

\* NameTableBookkeeping::new: a reader with nothing to read
NameTableBookkeepingNew == [changes |-> <<>>, inserted |-> {}]

\* UndoRedoBuffer::new
UndoRedoBufferNew == [changes |-> <<>>, cursor |-> 0]

\* Idle::default
IdleDefault == [state |-> "Idle", nested |-> [state |-> "WaitingToSelect"]]

\* AddLineMode::default and AddPointMode::default
AddLineModeDefault ==
    [state |-> "AddLineMode", nested |-> [state |-> "WaitingToPlace"]]
AddPointModeDefault ==
    [state |-> "AddPointMode", nested |-> [state |-> "WaitingToPlace"]]

\* a World without names, the demo as Model::default leaves it, an empty
\* undo buffer
AppInit ==
    /\ names = EmptyMap
    /\ name_table = EmptyMap
    /\ bookkeeping = NameTableBookkeepingNew
    /\ mode = AddLineModeDefault
    /\ selected = {}
    /\ buffer = UndoRedoBufferNew

Init ==
    /\ space = SpaceDefault
    /\ lastCall = NoCall
    /\ entities = [i \in RawIds |-> [gen |-> 0, alive |-> FALSE]]
    /\ drawing = EmptyMap
    /\ cache = EmptyMap
    /\ syncBounds = SyncBoundsNew
    /\ spatialRel = SpatialRelationNew
    /\ pc = "idle"
    /\ AppInit

----------------------------------------------------------------------------
(* Calls on Space *)

WorldVars == <<entities, drawing, cache, syncBounds, spatialRel, pc>>

SpaceModify(e, b) ==
    /\ space.panicked = "no"
    /\ \E sp \in modify(space, SpatialEntityNew(b, e)) :
          /\ sp.quadtree.id <= MaxItemId
          /\ space' = sp
    /\ lastCall' = [op |-> "modify", entity |-> e, bounds |-> b]
    /\ UNCHANGED WorldVars
    /\ UNCHANGED AppVars

SpaceRemove(e) ==
    /\ space.panicked = "no"
    /\ space' = remove(space, e)
    /\ lastCall' = NoCall
    /\ UNCHANGED WorldVars
    /\ UNCHANGED AppVars

SpaceRemoveById(id) ==
    /\ space.panicked = "no"
    /\ \E sp \in remove_by_id(space, id) : space' = sp
    /\ lastCall' = NoCall
    /\ UNCHANGED WorldVars
    /\ UNCHANGED AppVars

SpaceClear ==
    /\ space.panicked = "no"
    /\ space' = clear(space)
    /\ lastCall' = [op |-> "clear", dropped |-> len(space)]
    /\ UNCHANGED WorldVars
    /\ UNCHANGED AppVars

SpaceResize(b) ==
    /\ space.panicked = "no"
    /\ \E sp \in resize(space, aabb(b)) : space' = sp
    /\ lastCall' = NoCall
    /\ UNCHANGED WorldVars
    /\ UNCHANGED AppVars

\* the calls a user of Space makes without resizing it by hand
NextCalls ==
    \/ \E e \in EntitySet, b \in Boxes : SpaceModify(e, b)
    \/ \E e \in EntitySet : SpaceRemove(e)
    \/ \E id \in RawIds : SpaceRemoveById(id)
    \/ SpaceClear

SpecCalls == Init /\ [][NextCalls]_vars

NextSpace ==
    \/ \E e \in EntitySet, b \in Boxes : SpaceModify(e, b)
    \/ \E e \in EntitySet : SpaceRemove(e)
    \/ \E id \in RawIds : SpaceRemoveById(id)
    \/ SpaceClear
    \/ \E b \in Boxes : SpaceResize(b)

SpecSpace == Init /\ [][NextSpace]_vars

----------------------------------------------------------------------------
(* Edits of the World between update cycles *)

Editable == pc \in {"idle", "done"}

RECURSIVE AscSeq(_)
\* The members of a set of raw ids in ascending order (the order of a join)
AscSeq(S) ==
    IF S = {} THEN <<>>
    ELSE LET m == CHOOSE x \in S : \A y \in S : x <= y
         IN  <<m>> \o AscSeq(S \ {m})

\* world.create_entity().with(DrawingObject { geometry, .. }).build()
CreateEntity(i, g) ==
    /\ Editable
    /\ ~is_alive(i)
    /\ entities[i].gen < MaxGen
    /\ Len(syncBounds.changes) < MaxEvents
    /\ entities' = [entities EXCEPT ![i] = [gen |-> @.gen + 1, alive |-> TRUE]]
    /\ drawing' = MapPut(drawing, i, g)
    /\ syncBounds' = [syncBounds EXCEPT !.changes = Append(@, Inserted(i))]
    /\ pc' = "idle"
    /\ UNCHANGED <<space, lastCall, cache, spatialRel>>
    /\ UNCHANGED AppVars

\* write_storage::<DrawingObject>().insert(entity, component): a new entry
\* is flagged Inserted, an overwritten one Modified
SetComponent(i, g) ==
    /\ Editable
    /\ is_alive(i)
    /\ Len(syncBounds.changes) < MaxEvents
    /\ drawing' = MapPut(drawing, i, g)
    /\ syncBounds' = [syncBounds EXCEPT !.changes =
          Append(@, IF i \in DOMAIN drawing THEN Modified(i) ELSE Inserted(i))]
    /\ pc' = "idle"
    /\ UNCHANGED <<space, lastCall, entities, cache, spatialRel>>
    /\ UNCHANGED AppVars

\* write_storage::<DrawingObject>().get_mut(entity).unwrap().geometry = g
GetMut(i, g) ==
    /\ Editable
    /\ is_alive(i)
    /\ i \in DOMAIN drawing
    /\ Len(syncBounds.changes) < MaxEvents
    /\ drawing' = MapPut(drawing, i, g)
    /\ syncBounds' = [syncBounds EXCEPT !.changes = Append(@, Modified(i))]
    /\ pc' = "idle"
    /\ UNCHANGED <<space, lastCall, entities, cache, spatialRel>>
    /\ UNCHANGED AppVars

\* write_storage::<DrawingObject>().remove(entity)
DeleteComponent(i) ==
    /\ Editable
    /\ is_alive(i)
    /\ i \in DOMAIN drawing
    /\ Len(syncBounds.changes) < MaxEvents
    /\ drawing' = MapRemove(drawing, i)
    /\ syncBounds' = [syncBounds EXCEPT !.changes = Append(@, Removed(i))]
    /\ pc' = "idle"
    /\ UNCHANGED <<space, lastCall, entities, cache, spatialRel>>
    /\ UNCHANGED AppVars

\* world.delete_entity(entity); world.maintain(): every storage drops the
\* entity's component and flags it Removed
DeleteEntity(i) ==
    /\ Editable
    /\ is_alive(i)
    /\ Len(syncBounds.changes) < MaxEvents
    /\ Len(spatialRel.changes) < MaxEvents
    /\ entities' = [entities EXCEPT ![i].alive = FALSE]
    /\ drawing' = MapRemove(drawing, i)
    /\ cache' = MapRemove(cache, i)
    /\ syncBounds' = [syncBounds EXCEPT !.changes =
          IF i \in DOMAIN drawing THEN Append(@, Removed(i)) ELSE @]
    /\ spatialRel' = [spatialRel EXCEPT !.changes =
          IF i \in DOMAIN cache THEN Append(@, Removed(i)) ELSE @]
    /\ pc' = "idle"
    /\ UNCHANGED <<space, lastCall>>
    /\ UNCHANGED AppVars

----------------------------------------------------------------------------
(* SyncBounds::run *)

EventIds(evs, kinds) == {evs[k].id : k \in {n \in DOMAIN evs : evs[n].kind \in kinds}}

RECURSIVE InsertBounds(_, _)
\* the first join: bounds.insert(ent, drawing_object.geometry.bounding_box())
InsertBounds(st, todo) ==
    IF todo = <<>> THEN st
    ELSE LET i == Head(todo)
         IN  InsertBounds(
                [cache |-> MapPut(st.cache, i, bounding_box(drawing[i])),
                 out   |-> Append(st.out, IF i \in DOMAIN st.cache
                                          THEN Modified(i) ELSE Inserted(i))],
                Tail(todo))

RECURSIVE RemoveBounds(_, _)
\* the second join: bounds.remove(ent)
RemoveBounds(st, todo) ==
    IF todo = <<>> THEN st
    ELSE LET i == Head(todo)
         IN  RemoveBounds(
                IF i \in DOMAIN st.cache
                THEN [cache |-> MapRemove(st.cache, i),
                      out   |-> Append(st.out, Removed(i))]
                ELSE st,
                Tail(todo))

FlagsKept(flags, events, kinds) == flags \cup EventIds(events, kinds)

\* a flag set of a run: cleared, then every event of the kinds adds its id
FlagsOfRun(flags, events, kinds) == EventIds(events, kinds)

SyncBoundsRun ==
    /\ pc \in {"idle", "done"}
    /\ LET events    == syncBounds.changes
           to_update == FlagsOfRun(syncBounds.to_update, events,
                                   {"Inserted", "Modified"})
           removed   == FlagsOfRun(syncBounds.removed, events, {"Removed"})
           live      == {i \in RawIds : is_alive(i)}
           st0 == [cache |-> cache, out |-> spatialRel.changes]
           st1 == InsertBounds(st0,
                      AscSeq(live \cap (DOMAIN drawing) \cap to_update))
           st2 == RemoveBounds(st1, AscSeq(live \cap removed))
       IN  /\ cache' = st2.cache
           /\ spatialRel' = [spatialRel EXCEPT !.changes = st2.out]
           /\ syncBounds' = [changes |-> <<>>, to_update |-> to_update,
                             removed |-> removed]
    /\ pc' = "synced"
    /\ UNCHANGED <<space, lastCall, entities, drawing>>
    /\ UNCHANGED AppVars

----------------------------------------------------------------------------
(* SpatialRelation::run *)

RECURSIVE ReadEvents(_, _)
\* the event loop: a Removed event is applied to Space at once
ReadEvents(sps, evs) ==
    IF evs = <<>> THEN sps
    ELSE ReadEvents(
            IF Head(evs).kind = "Removed"
            THEN UNION {IF sp.panicked # "no" THEN {sp}
                        ELSE remove_by_id(sp, Head(evs).id) : sp \in sps}
            ELSE sps,
            Tail(evs))

RECURSIVE ModifyAll(_, _)
\* a join over (entities, bounds, flags): space.modify for each entity
ModifyAll(sps, todo) ==
    IF todo = <<>> THEN sps
    ELSE ModifyAll(
            UNION {IF sp.panicked # "no" THEN {sp}
                   ELSE modify(sp, SpatialEntityNew(cache[Head(todo)],
                                                    EntityAt(Head(todo))))
                   : sp \in sps},
            Tail(todo))

SpatialRelationRun ==
    /\ pc = "synced"
    /\ LET events    == spatialRel.changes
           to_insert == FlagsOfRun(spatialRel.to_insert, events, {"Inserted"})
           to_update == FlagsOfRun(spatialRel.to_update, events, {"Modified"})
           live      == {i \in RawIds : is_alive(i)}
           s1 == ReadEvents({space}, events)
           s2 == ModifyAll(s1, AscSeq(live \cap (DOMAIN cache) \cap to_insert))
           s3 == ModifyAll(s2, AscSeq(live \cap (DOMAIN cache) \cap to_update))
       IN  /\ \E sp \in s3 :
                /\ sp.quadtree.id <= MaxItemId
                /\ space' = sp
                /\ pc' = IF sp.panicked = "no" THEN "done" ELSE "aborted"
           /\ spatialRel' = [changes |-> <<>>, to_insert |-> to_insert,
                             to_update |-> to_update,
                             seen |-> EventIds(events,
                                        {"Inserted", "Modified", "Removed"})]
    /\ UNCHANGED <<lastCall, entities, drawing, cache, syncBounds>>
    /\ UNCHANGED AppVars

Next ==
    \/ \E i \in RawIds, g \in WorldGeometries : CreateEntity(i, g)
    \/ \E i \in RawIds, g \in WorldGeometries : SetComponent(i, g)
    \/ \E i \in RawIds, g \in WorldGeometries : GetMut(i, g)
    \/ \E i \in RawIds : DeleteComponent(i)
    \/ \E i \in RawIds : DeleteEntity(i)
    \/ SyncBoundsRun
    \/ SpatialRelationRun

Spec == Init /\ [][Next]_vars

----------------------------------------------------------------------------
(* Building a World and System::setup of the background tasks *)

\* world.create_entity().with(DrawingObject { geometry, .. }) and, when
\* with_box, .with(geometry.bounding_box()), before the systems exist
BuildEntity(i, g, with_box) ==
    /\ pc = "building"
    /\ ~is_alive(i)
    /\ entities[i].gen < MaxGen
    /\ entities' = [entities EXCEPT ![i] = [gen |-> @.gen + 1, alive |-> TRUE]]
    /\ drawing' = MapPut(drawing, i, g)
    /\ cache' = IF with_box THEN MapPut(cache, i, bounding_box(g)) ELSE cache
    /\ UNCHANGED <<space, lastCall, syncBounds, spatialRel, pc>>
    /\ UNCHANGED AppVars

\* world.delete_entity(entity); world.maintain() before the systems exist
BuildDelete(i) ==
    /\ pc = "building"
    /\ is_alive(i)
    /\ entities' = [entities EXCEPT ![i].alive = FALSE]
    /\ drawing' = MapRemove(drawing, i)
    /\ cache' = MapRemove(cache, i)
    /\ UNCHANGED <<space, lastCall, syncBounds, spatialRel, pc>>
    /\ UNCHANGED AppVars

\* SyncBounds::new, SpatialRelation::new and System::setup of both: SyncBounds
\* keeps the default setup, SpatialRelation::setup clears Space and calls
\* modify for every live entity in the BoundingBox storage
DispatcherSetup ==
    /\ pc = "building"
    /\ LET live == {i \in RawIds : is_alive(i)}
           s1   == ModifyAll({clear(space)}, AscSeq(live \cap (DOMAIN cache)))
       IN  \E sp \in s1 :
              /\ sp.quadtree.id <= MaxItemId
              /\ space' = sp
              /\ pc' = IF sp.panicked = "no" THEN "ready" ELSE "aborted"
    /\ syncBounds' = SyncBoundsNew
    /\ spatialRel' = SpatialRelationNew
    /\ UNCHANGED <<lastCall, entities, drawing, cache>>
    /\ UNCHANGED AppVars

InitSetup ==
    /\ space = SpaceDefault
    /\ lastCall = NoCall
    /\ entities = [i \in RawIds |-> [gen |-> 0, alive |-> FALSE]]
    /\ drawing = EmptyMap
    /\ cache = EmptyMap
    /\ syncBounds = SyncBoundsNew
    /\ spatialRel = SpatialRelationNew
    /\ pc = "building"
    /\ AppInit

NextSetup ==
    \/ \E i \in RawIds, g \in Geometries, with_box \in BOOLEAN :
          BuildEntity(i, g, with_box)
    \/ \E i \in RawIds : BuildDelete(i)
    \/ DispatcherSetup

SpecSetup == InitSetup /\ [][NextSetup]_vars

----------------------------------------------------------------------------
(* Calls of the pure functions: the input is drawn first, then the call is
   made and lastCall records its arguments and what it returned *)

AlgoInit(inputs) ==
    /\ lastCall \in inputs
    /\ space = SpaceDefault
    /\ entities = [i \in RawIds |-> [gen |-> 0, alive |-> FALSE]]
    /\ drawing = EmptyMap
    /\ cache = EmptyMap
    /\ syncBounds = SyncBoundsNew
    /\ spatialRel = SpatialRelationNew
    /\ pc = "idle"
    /\ AppInit

----------------------------------------------------------------------------
(* BoundingBox::merge and BoundingBox::around; an Option is a sequence of
   at most one value *)

merge(left, right) == BoundingBoxNew(left.bottom_left, right.top_right)

RECURSIVE AroundFold(_, _)
\* .map(|b| b.bounding_box()).fold(None, ..)
AroundFold(acc, items) ==
    IF items = <<>> THEN acc
    ELSE LET item == bounding_box(GPoint(Head(items)))
         IN  AroundFold(IF acc = <<>> THEN <<item>>
                        ELSE <<merge(acc[1], item)>>,
                        Tail(items))

around(items) == AroundFold(<<>>, items)

GridPoints == {Pt(x, y) : x \in 0..MaxCoord, y \in 0..MaxCoord}
PointSeqs  == UNION {[1..n -> GridPoints] : n \in 0..MaxPoints}

InitAround == AlgoInit({[op |-> "input", points |-> ps] : ps \in PointSeqs})

CallAround ==
    /\ lastCall.op = "input"
    /\ lastCall' = [op |-> "around", points |-> lastCall.points,
                    ret |-> around(lastCall.points)]
    /\ UNCHANGED <<space, WorldVars>>
    /\ UNCHANGED AppVars

SpecAround == InitAround /\ [][CallAround]_vars

----------------------------------------------------------------------------
(* Arc and its bounding box.  Angles are whole numbers of quarter turns
   (pi/2), so that sine and cosine are exact *)

CosQ(a) == CASE a % 4 = 0 -> 1 [] a % 4 = 2 -> 0 - 1 [] OTHER -> 0
SinQ(a) == CASE a % 4 = 1 -> 1 [] a % 4 = 3 -> 0 - 1 [] OTHER -> 0

from_centre_radius(centre, radius, start_angle, sweep_angle) ==
    [centre |-> centre, radius |-> radius,
     start_angle |-> start_angle, sweep_angle |-> sweep_angle]

end_angle(arc) == arc.start_angle + arc.sweep_angle

point_at(arc, angle) ==
    LET a == arc.start_angle + angle
    IN  Pt(arc.centre.x + arc.radius * CosQ(a),
           arc.centre.y + arc.radius * SinQ(a))

ArcStart(arc) == point_at(arc, 0)
ArcEnd(arc)   == point_at(arc, arc.sweep_angle)

contains_angle(arc, angle) ==
    LET lo == Min(arc.start_angle, end_angle(arc))
        hi == Max(arc.start_angle, end_angle(arc))
    IN  lo <= angle /\ angle <= hi

\* <Arc as Bounded>::bounding_box
ArcBoundingBox(arc) ==
    LET x  == arc.centre.x
        y  == arc.centre.y
        r  == arc.radius
        b0 == BoundingBoxNew(ArcStart(arc), ArcEnd(arc))
        b1 == IF contains_angle(arc, 0)
              THEN BoundingBoxNew(b0.bottom_left, Pt(x + r, y)) ELSE b0
        b2 == IF contains_angle(arc, 1)
              THEN BoundingBoxNew(b1.bottom_left, Pt(x, y + r)) ELSE b1
        b3 == IF contains_angle(arc, 2)
              THEN BoundingBoxNew(b2.top_right, Pt(x - r, y)) ELSE b2
        b4 == IF contains_angle(arc, 3)
              THEN BoundingBoxNew(b3.top_right, Pt(x, y - r)) ELSE b3
    IN  b4

Arcs ==
    {from_centre_radius(c, r, a, sw) :
        c \in GridPoints, r \in 1..MaxRadius,
        a \in (0 - MaxQuarter)..MaxQuarter, sw \in (0 - MaxQuarter)..MaxQuarter}

InitArc == AlgoInit({[op |-> "input", arc |-> a] : a \in Arcs})

CallArcBoundingBox ==
    /\ lastCall.op = "input"
    /\ lastCall' = [op |-> "bounding_box", arc |-> lastCall.arc,
                    ret |-> ArcBoundingBox(lastCall.arc)]
    /\ UNCHANGED <<space, WorldVars>>
    /\ UNCHANGED AppVars

SpecArc == InitArc /\ [][CallArcBoundingBox]_vars

----------------------------------------------------------------------------
(* Line and line simplification.  A distance is kept as the fraction n / d
   of its square, so that every comparison of distances is exact *)

LineNew(start, end) == [start |-> start, end |-> end]

displacement(line) == Pt(line.end.x - line.start.x, line.end.y - line.start.y)

\* the square of Line::length
LengthSquared(line) ==
    displacement(line).x * displacement(line).x
       + displacement(line).y * displacement(line).y

\* Line::perpendicular_distance_to: |area| * 2 / base_length, or the
\* distance to the start point when the base has no length
perpendicular_distance_to(line, point) ==
    LET side_a == Pt(line.start.x - point.x, line.start.y - point.y)
        side_b == Pt(line.end.x - point.x, line.end.y - point.y)
        cross  == side_a.x * side_b.y - side_a.y * side_b.x
    IN  IF LengthSquared(line) = 0
        THEN [n |-> side_a.x * side_a.x + side_a.y * side_a.y, d |-> 1]
        ELSE [n |-> cross * cross, d |-> LengthSquared(line)]

\* key > *best_key
KeyGreater(key, best_key) == key.n * best_key.d > best_key.n * key.d

\* distance >= tolerance
AtLeastTolerance(distance, tolerance) ==
    tolerance <= 0 \/ distance.n >= tolerance * tolerance * distance.d

\* distance > tolerance
ExceedsTolerance(distance, tolerance) ==
    tolerance < 0 \/ distance.n > tolerance * tolerance * distance.d

RECURSIVE MaxByKeyFrom(_, _, _, _)
\* the loop of max_by_key: the first item with the greatest key wins
MaxByKeyFrom(items, line, i, best_so_far) ==
    IF i > Len(items) THEN best_so_far
    ELSE LET key == perpendicular_distance_to(line, items[i])
             is_better == IF best_so_far = <<>> THEN TRUE
                          ELSE KeyGreater(key, best_so_far[1].key)
         IN  MaxByKeyFrom(items, line, i + 1,
                          IF is_better THEN <<[ix |-> i, key |-> key]>>
                          ELSE best_so_far)

\* max_by_key(rest, |p| line_segment.perpendicular_distance_to(*p)); the
\* index counts from 1
max_by_key(items, line) == MaxByKeyFrom(items, line, 1, <<>>)

RECURSIVE simplify_points(_, _)
\* simplify_points: the points it pushes onto the buffer, in order
simplify_points(points, tolerance) ==
    IF Len(points) < 2 THEN <<>>
    ELSE LET first == points[1]
             last  == points[Len(points)]
             rest  == SubSeq(points, 2, Len(points) - 1)
             best  == max_by_key(rest, LineNew(first, last))
         IN  IF best = <<>> THEN <<>>
             ELSE IF ExceedsTolerance(best[1].key, tolerance)
                  THEN LET ix == best[1].ix + 1
                       IN  simplify_points(SubSeq(points, 1, ix), tolerance)
                              \o <<points[ix]>>
                              \o simplify_points(SubSeq(points, ix, Len(points)),
                                                 tolerance)
                  ELSE <<>>

simplify_first_pushed_late(points, tolerance) ==
    IF Len(points) <= 2 THEN points
    ELSE simplify_points(points, tolerance)
            \o <<points[1], points[Len(points)]>>

simplify(points, tolerance) ==
    IF Len(points) <= 2 THEN points
    ELSE <<points[1]>> \o simplify_points(points, tolerance)
            \o <<points[Len(points)]>>

Tolerances == 0..MaxTol

InitSimplify ==
    AlgoInit({[op |-> "input", points |-> ps, tolerance |-> tol] :
                 ps \in PointSeqs, tol \in Tolerances})

CallSimplify ==
    /\ lastCall.op = "input"
    /\ lastCall' = [op |-> "simplify", points |-> lastCall.points,
                    tolerance |-> lastCall.tolerance,
                    ret |-> simplify(lastCall.points, lastCall.tolerance)]
    /\ UNCHANGED <<space, WorldVars>>
    /\ UNCHANGED AppVars

SpecSimplify == InitSimplify /\ [][CallSimplify]_vars

----------------------------------------------------------------------------
(* ClosestPoint for Line.  The returned point is kept as the fractions
   x / d and y / d, so that the projected point is exact *)

\* self.length().approx_eq(&0.0): |length - 0.0| < approx_epsilon
approx_eq_zero(line) == LengthSquared(line) < APPROX_EPSILON * APPROX_EPSILON

One(x, y, d) == [kind |-> "One", x |-> x, y |-> y, d |-> d]

\* <Line as ClosestPoint>::closest_point
closest_point(line, target) ==
    IF approx_eq_zero(line) THEN One(line.start.x, line.start.y, 1)
    ELSE LET start == line.start
             disp  == displacement(line)
             \* t = dot(target - start, displacement) / (length * length)
             t == [n |-> (target.x - start.x) * disp.x
                            + (target.y - start.y) * disp.y,
                   d |-> LengthSquared(line)]
         IN  IF t.n <= 0 THEN One(start.x, start.y, 1)
             ELSE IF t.n >= t.d THEN One(line.end.x, line.end.y, 1)
             ELSE One(start.x * t.d + t.n * disp.x,
                      start.y * t.d + t.n * disp.y, t.d)

InitClosest ==
    AlgoInit({[op |-> "input", line |-> LineNew(a, b), target |-> p] :
                 a \in GridPoints, b \in GridPoints, p \in GridPoints})

CallClosestPoint ==
    /\ lastCall.op = "input"
    /\ lastCall' = [op |-> "closest_point", line |-> lastCall.line,
                    target |-> lastCall.target,
                    ret |-> closest_point(lastCall.line, lastCall.target)]
    /\ UNCHANGED <<space, WorldVars>>
    /\ UNCHANGED AppVars

SpecClosest == InitClosest /\ [][CallClosestPoint]_vars

----------------------------------------------------------------------------
(* Orientation, centre_of_three_points and Arc::from_three_points.  The
   result of a call is None, Some or a panic (a tripped assertion) *)

\* Orientation::of
OrientationOf(first, second, third) ==
    LET value == (second.y - first.y) * (third.x - second.x)
                    - (second.x - first.x) * (third.y - second.y)
    IN  IF value > 0 THEN "Clockwise"
        ELSE IF value < 0 THEN "Anticlockwise"
        ELSE "Collinear"

\* centre_of_three_points: an Option of the centre, kept as x / d and y / d
centre_of_three_points(first, second, third) ==
    LET temp == second.x * second.x + second.y * second.y
        bc2  == (first.x * first.x + first.y * first.y) - temp
        cd2  == temp - third.x * third.x - third.y * third.y
        determinant == (first.x - second.x) * (second.y - third.y)
                          - (second.x - third.x) * (first.y - second.y)
    IN  IF determinant = 0 THEN <<>>
        ELSE <<[x |-> bc2 * (second.y - third.y) - cd2 * (first.y - second.y),
                y |-> (first.x - second.x) * cd2 - (second.x - third.x) * bc2,
                d |-> 2 * determinant]>>

\* the rest of from_three_points once the centre is known: the assertion of
\* sweep_angle_from_3_points, then from_centre_radius and its assertion that
\* the radius is positive
ArcThrough(start, middle, end, centre) ==
    LET radius_is_zero == /\ start.x * centre.d = centre.x
                          /\ start.y * centre.d = centre.y
    IN  IF OrientationOf(start, middle, end) = "Collinear" \/ radius_is_zero
        THEN {[kind |-> "Some", centre |-> centre,
               orientation |-> OrientationOf(start, middle, end)],
              [kind |-> "Panic"]}
        ELSE {[kind |-> "Some", centre |-> centre,
               orientation |-> OrientationOf(start, middle, end)]}

\* Arc::from_three_points of core/src/primitives/arc.rs: the outcomes a
\* build can produce
from_three_points(start, middle, end) ==
    LET centre == centre_of_three_points(start, middle, end)
    IN  IF centre = <<>> THEN {[kind |-> "None"]}
        ELSE ArcThrough(start, middle, end, centre[1])

\* Arc::from_three_points of arcs/src/arc.rs: it first asserts, in a build
\* with debug assertions, that the points are not collinear
from_three_points_asserting(start, middle, end) ==
    IF OrientationOf(start, middle, end) = "Collinear"
    THEN {[kind |-> "Panic"]} \cup from_three_points(start, middle, end)
    ELSE from_three_points(start, middle, end)

InitThreePoints ==
    AlgoInit({[op |-> "input", start |-> a, middle |-> b, end |-> c] :
                 a \in GridPoints, b \in GridPoints, c \in GridPoints})

CallFromThreePoints ==
    /\ lastCall.op = "input"
    /\ \E r \in from_three_points(lastCall.start, lastCall.middle, lastCall.end) :
          lastCall' = [op |-> "from_three_points", crate |-> "core",
                       start |-> lastCall.start, middle |-> lastCall.middle,
                       end |-> lastCall.end, ret |-> r]
    /\ UNCHANGED <<space, WorldVars>>
    /\ UNCHANGED AppVars

CallFromThreePointsAsserting ==
    /\ lastCall.op = "input"
    /\ \E r \in from_three_points_asserting(lastCall.start, lastCall.middle,
                                            lastCall.end) :
          lastCall' = [op |-> "from_three_points", crate |-> "arcs",
                       start |-> lastCall.start, middle |-> lastCall.middle,
                       end |-> lastCall.end, ret |-> r]
    /\ UNCHANGED <<space, WorldVars>>
    /\ UNCHANGED AppVars

NextThreePoints == CallFromThreePoints \/ CallFromThreePointsAsserting

SpecThreePoints == InitThreePoints /\ [][NextThreePoints]_vars

----------------------------------------------------------------------------
(* Arc::approximate and ApproximatedArc.  Angles are whole numbers of pi/6
   and fractions n / d of them *)

\* cos_theta_on_two.acos() * 2.0 where it is a whole number of pi/6: with
\* tolerance = radius / 2 the cosine is 1/2 and theta is 2 * pi/3
Theta(radius, tolerance) == IF 2 * tolerance = radius THEN 4 ELSE 0

\* the (radius, tolerance) pairs approximate is given: those that take the
\* first branch and those whose theta is Theta
ApproximateInputs ==
    {rt \in (1..MaxRadius) \X (0..MaxTol) :
        rt[2] <= 0 \/ rt[1] <= rt[2] \/ Theta(rt[1], rt[2]) > 0}

\* f64::ceil of a fraction that is not negative
Ceil(q) == (q.n + q.d - 1) \div q.d

\* <Arc as Approximate>::approximate
approximate(arc, tolerance) ==
    IF tolerance <= 0 \/ arc.radius <= tolerance
    THEN [i |-> 0, steps |-> 1, step_size |-> [n |-> arc.sweep_angle, d |-> 1],
          arc |-> arc]
    ELSE LET theta == Theta(arc.radius, tolerance)
             \* self.sweep_angle().get() / theta, then f64::max(.., 2.0)
             count == IF arc.sweep_angle < 2 * theta
                      THEN [n |-> 2, d |-> 1]
                      ELSE [n |-> arc.sweep_angle, d |-> theta]
         IN  [i |-> 0, steps |-> Abs(Ceil(count)),
              step_size |-> [n |-> arc.sweep_angle * count.d, d |-> count.n],
              arc |-> arc]

RECURSIVE Collect(_)
\* ApproximatedArc::next until it returns None: the angle of every point
\* yielded, measured from the arc's start angle
Collect(it) ==
    IF it.i > it.steps THEN <<>>
    ELSE <<[n |-> it.i * it.step_size.n, d |-> it.step_size.d]>>
            \o Collect([it EXCEPT !.i = @ + 1])

InitApproximate ==
    AlgoInit({[op |-> "input",
               arc |-> from_centre_radius(Pt(0, 0), rt[1], 0, sw),
               tolerance |-> rt[2]] :
                 rt \in ApproximateInputs, sw \in (0 - MaxSweep)..MaxSweep})

CallApproximate ==
    /\ lastCall.op = "input"
    /\ lastCall' = [op |-> "approximate", arc |-> lastCall.arc,
                    tolerance |-> lastCall.tolerance,
                    steps |-> approximate(lastCall.arc, lastCall.tolerance).steps,
                    ret |-> Collect(approximate(lastCall.arc, lastCall.tolerance))]
    /\ UNCHANGED <<space, WorldVars>>
    /\ UNCHANGED AppVars

SpecApproximate == InitApproximate /\ [][CallApproximate]_vars

----------------------------------------------------------------------------
(* fillet_three_points.  Lengths are whole numbers of half a micron, the
   edges run along the axes and angles are whole quarter turns *)

\* Vector2D::angle_from_x_axis of a vector along an axis: atan2(y, x)
angle_from_x_axis(v) ==
    CASE v.y > 0 -> 1
      [] v.y < 0 -> 0 - 1
      [] v.x < 0 -> 2
      [] OTHER   -> 0

\* Angle::positive: the angle in [0, 2 pi)
positive(angle) == angle % 4

\* Angle::signed: the angle in (-pi, pi]
signed(angle) == 2 - positive(2 - angle)

\* Vector2D::length of a vector along an axis
AxisLength(v) == Abs(v.x) + Abs(v.y)

\* Line::direction: the normalised displacement, NaN for a zero vector
direction(line) ==
    LET v == displacement(line)
    IN  IF AxisLength(v) = 0 THEN <<>>
        ELSE <<Pt(v.x \div AxisLength(v), v.y \div AxisLength(v))>>

r_theta(radius, angle) == Pt(radius * CosQ(angle), radius * SinQ(angle))

\* half_angle.get().tan().abs() of a quarter turn either way
TanHalfAbs(rotation_angle) == IF Abs(rotation_angle) = 1 THEN 1 ELSE 0

\* the outcomes of fillet_three_points: the debug_assert! of
\* Arc::from_centre_radius is compiled into debug builds only
fillet_three_points(start, corner, end, radius) ==
    LET incoming == LineNew(start, corner)
        outgoing == LineNew(corner, end)
        angle_1 == angle_from_x_axis(displacement(incoming))
        angle_2 == angle_from_x_axis(displacement(outgoing))
        rotation_angle == signed(angle_2 - angle_1)
        required == radius * TanHalfAbs(rotation_angle)
        smallest_length == Min(AxisLength(displacement(incoming)),
                               AxisLength(displacement(outgoing)))
        length_to_remove ==
            IF Abs(required - smallest_length) < APPROX_EPSILON
            THEN smallest_length ELSE required
        start_to_centre ==
            IF rotation_angle >= 0 THEN r_theta(radius, angle_1 - 1)
            ELSE r_theta(radius, angle_1 + 1)
        \* corner - direction * length_to_remove - start_to_centre
        centre ==
            IF direction(incoming) = <<>> THEN <<>>
            ELSE <<Pt(corner.x - direction(incoming)[1].x * length_to_remove
                          - start_to_centre.x,
                      corner.y - direction(incoming)[1].y * length_to_remove
                          - start_to_centre.y)>>
        arc == [kind |-> "Ok", centre |-> centre,
                radius |-> AxisLength(start_to_centre),
                start_angle |-> positive(angle_from_x_axis(start_to_centre)),
                sweep_angle |-> rotation_angle]
    IN  IF rotation_angle = 0 \/ positive(rotation_angle) = 2
        THEN {[kind |-> "CollinearLines"]}
        ELSE IF Abs(required - smallest_length) >= APPROX_EPSILON
                /\ required > smallest_length
        THEN {[kind |-> "InsufficientLength", required |-> required,
               available |-> smallest_length]}
        ELSE IF AxisLength(start_to_centre) > 0 THEN {arc}
        ELSE {arc, [kind |-> "Panic"]}

AlongAxis(a, b) == a.x = b.x \/ a.y = b.y

InitFillet ==
    AlgoInit({in \in [op : {"input"}, start : GridPoints, corner : GridPoints,
                      end : GridPoints, radius : 0..MaxRadius] :
                 AlongAxis(in.start, in.corner) /\ AlongAxis(in.corner, in.end)})

CallFillet ==
    /\ lastCall.op = "input"
    /\ \E ret \in fillet_three_points(lastCall.start, lastCall.corner,
                                      lastCall.end, lastCall.radius) :
          lastCall' = [op |-> "fillet_three_points", start |-> lastCall.start,
                       corner |-> lastCall.corner, end |-> lastCall.end,
                       radius |-> lastCall.radius, ret |-> ret]
    /\ UNCHANGED <<space, WorldVars>>
    /\ UNCHANGED AppVars

SpecFillet == InitFillet /\ [][CallFillet]_vars

----------------------------------------------------------------------------
(* Names, the NameTable and NameTableBookkeeping *)

MaxNameGen    == 1  \* highest generation of a named entity
MaxNameEvents == 2  \* unread Name events before the model stops editing

Names == {"first", "second"}

\* the entities of the World, live or dead
EntitiesUpTo(maxGen) == {Entity(i, g) : i \in RawIds, g \in 1..maxGen}

\* no other entity holds the name: each Name is unique within a World
NameIsFree(i, n) == \A j \in DOMAIN names : j # i => names[j] # n

\* a Name event reaches the reader once NameTableBookkeeping::new made one
FlagName(ev) ==
    IF pc = "building" THEN bookkeeping
    ELSE [bookkeeping EXCEPT !.changes = Append(@, ev)]

AfterNameEdit == IF pc = "synced" THEN "edited" ELSE pc

NameEditable ==
    /\ pc \in {"building", "registered", "synced", "edited"}
    /\ Len(bookkeeping.changes) < MaxNameEvents

\* world.create_entity().with(Name::new(n)).build(), or without a Name
NameCreate(i, name) ==
    /\ NameEditable
    /\ ~is_alive(i)
    /\ entities[i].gen < MaxNameGen
    /\ name # <<>> => NameIsFree(i, name[1])
    /\ entities' = [entities EXCEPT ![i] = [gen |-> @.gen + 1, alive |-> TRUE]]
    /\ names' = IF name = <<>> THEN names ELSE MapPut(names, i, name[1])
    /\ bookkeeping' = IF name = <<>> THEN bookkeeping ELSE FlagName(Inserted(i))
    /\ pc' = AfterNameEdit
    /\ UNCHANGED <<space, lastCall, drawing, cache, syncBounds, spatialRel>>
    /\ UNCHANGED <<name_table, mode, selected, buffer>>

\* write_storage::<Name>().insert(entity, Name::new(n)): a new entry is
\* flagged Inserted, an overwritten one Modified
NameInsert(i, n) ==
    /\ NameEditable
    /\ is_alive(i)
    /\ NameIsFree(i, n)
    /\ names' = MapPut(names, i, n)
    /\ bookkeeping' =
          FlagName(IF i \in DOMAIN names THEN Modified(i) ELSE Inserted(i))
    /\ pc' = AfterNameEdit
    /\ UNCHANGED <<space, lastCall, entities, drawing, cache, syncBounds,
                   spatialRel>>
    /\ UNCHANGED <<name_table, mode, selected, buffer>>

\* *write_storage::<Name>().get_mut(entity).unwrap() = Name::new(n)
NameGetMut(i, n) ==
    /\ NameEditable
    /\ i \in DOMAIN names
    /\ NameIsFree(i, n)
    /\ names' = MapPut(names, i, n)
    /\ bookkeeping' = FlagName(Modified(i))
    /\ pc' = AfterNameEdit
    /\ UNCHANGED <<space, lastCall, entities, drawing, cache, syncBounds,
                   spatialRel>>
    /\ UNCHANGED <<name_table, mode, selected, buffer>>

\* write_storage::<Name>().remove(entity)
NameRemove(i) ==
    /\ NameEditable
    /\ i \in DOMAIN names
    /\ names' = MapRemove(names, i)
    /\ bookkeeping' = FlagName(Removed(i))
    /\ pc' = AfterNameEdit
    /\ UNCHANGED <<space, lastCall, entities, drawing, cache, syncBounds,
                   spatialRel>>
    /\ UNCHANGED <<name_table, mode, selected, buffer>>

\* world.delete_entity(entity); world.maintain(): the Name storage drops
\* the entity's Name and flags it Removed
NameDeleteEntity(i) ==
    /\ NameEditable
    /\ is_alive(i)
    /\ entities' = [entities EXCEPT ![i].alive = FALSE]
    /\ names' = MapRemove(names, i)
    /\ bookkeeping' =
          IF i \in DOMAIN names THEN FlagName(Removed(i)) ELSE bookkeeping
    /\ pc' = AfterNameEdit
    /\ UNCHANGED <<space, lastCall, drawing, cache, syncBounds, spatialRel>>
    /\ UNCHANGED <<name_table, mode, selected, buffer>>

\* NameTableBookkeeping::new(&world)
BookkeepingNew ==
    /\ pc = "building"
    /\ bookkeeping' = NameTableBookkeepingNew
    /\ pc' = "registered"
    /\ UNCHANGED <<space, lastCall, entities, drawing, cache, syncBounds,
                   spatialRel>>
    /\ UNCHANGED <<names, name_table, mode, selected, buffer>>

\* the table that maps the Name of every entity of ids to the entity, the
\* entities taken in ascending order
RECURSIVE InsertNames(_, _)
InsertNames(table, ids) ==
    IF ids = <<>> THEN table
    ELSE InsertNames(MapPut(table, names[Head(ids)], EntityAt(Head(ids))),
                     Tail(ids))

\* <NameTableBookkeeping as System>::setup
BookkeepingSetup ==
    /\ pc = "registered"
    /\ name_table' = InsertNames(EmptyMap,
                        AscSeq({i \in DOMAIN names : is_alive(i)}))
    /\ pc' = "synced"
    /\ UNCHANGED <<space, lastCall, entities, drawing, cache, syncBounds,
                   spatialRel>>
    /\ UNCHANGED <<names, bookkeeping, mode, selected, buffer>>

NameTableKeep(table, id) == {table}

\* NameTable::remove_by_id: the first entry of the HashMap's iteration, in
\* whatever order that is, which holds the id is removed
NameTableRemoveById(table, id) ==
    IF \A n \in DOMAIN table : table[n].id # id THEN {table}
    ELSE {MapRemove(table, n) : n \in {m \in DOMAIN table : table[m].id = id}}

\* the event loop of run from event k on: the possible pairs of table and
\* inserted set
RECURSIVE ReadNameEvents(_, _, _)
ReadNameEvents(evs, k, st) ==
    IF k > Len(evs) THEN st
    ELSE LET ev == evs[k]
             step(s) ==
                 CASE ev.kind = "Inserted" ->
                        {[table |-> s.table, inserted |-> s.inserted \cup {ev.id}]}
                   [] ev.kind = "Removed" ->
                        {[table |-> t, inserted |-> s.inserted] :
                            t \in NameTableRemoveById(s.table, ev.id)}
                   [] OTHER ->
                        {[table |-> t, inserted |-> s.inserted \cup {ev.id}] :
                            t \in NameTableRemoveById(s.table, ev.id)}
         IN  ReadNameEvents(evs, k + 1, UNION {step(s) : s \in st})

\* <NameTableBookkeeping as System>::run
BookkeepingRun ==
    /\ pc \in {"synced", "edited"}
    /\ \E s \in ReadNameEvents(bookkeeping.changes, 1,
                   {[table |-> name_table, inserted |-> {}]}) :
          /\ name_table' = InsertNames(s.table,
                AscSeq({i \in s.inserted \cap DOMAIN names : is_alive(i)}))
          /\ bookkeeping' = [changes |-> <<>>, inserted |-> s.inserted]
    /\ pc' = "synced"
    /\ UNCHANGED <<space, lastCall, entities, drawing, cache, syncBounds,
                   spatialRel>>
    /\ UNCHANGED <<names, mode, selected, buffer>>

InitNames ==
    /\ space = SpaceDefault
    /\ lastCall = NoCall
    /\ entities = [i \in RawIds |-> [gen |-> 0, alive |-> FALSE]]
    /\ drawing = EmptyMap
    /\ cache = EmptyMap
    /\ syncBounds = SyncBoundsNew
    /\ spatialRel = SpatialRelationNew
    /\ pc = "building"
    /\ AppInit

NextNames ==
    \/ \E i \in RawIds, name \in {<<>>} \cup {<<n>> : n \in Names} :
          NameCreate(i, name)
    \/ \E i \in RawIds, n \in Names : NameGetMut(i, n)
    \/ \E i \in RawIds, n \in Names : NameInsert(i, n)
    \/ \E i \in RawIds : NameRemove(i)
    \/ \E i \in RawIds : NameDeleteEntity(i)
    \/ BookkeepingNew
    \/ BookkeepingSetup
    \/ BookkeepingRun

SpecNames == InitNames /\ [][NextNames]_vars

----------------------------------------------------------------------------
(* The demo's modes: Idle, AddLineMode, AddPointMode and their nested
   sub-states.  A handler's outcome is the Transition it returns (no state,
   or the new one), the World it leaves and whether it suppressed the redraw
   or panicked.  The handlers of AddArcMode are not part of the model. *)

MaxModeId  == 2     \* highest raw id of an entity of the demo's World
MaxModeGen == 1     \* highest generation of an entity of the demo's World

ModeIds == 0..MaxModeId
MouseLocations == {Pt(0, 0), Pt(1, 2)}
Keys == {"Escape", "A", "P", "L", "Q"}

\* the part of the World the handlers touch
WorldOf == [entities |-> entities, drawing |-> drawing, selected |-> selected]

IsLive(w, e) == w.entities[e.id].alive /\ w.entities[e.id].gen = e.gen

\* the raw ids create_entity can hand out
FreeIds(w) ==
    {i \in DOMAIN w.entities :
        ~w.entities[i].alive /\ w.entities[i].gen < MaxModeGen}

\* world.create_entity().with(DrawingObject { geometry, layer }) and, when
\* select, .with(Selected), then .build()
Build(w, i, geometry, select) ==
    [entities |-> [w.entities EXCEPT ![i] = [gen |-> @.gen + 1, alive |-> TRUE]],
     drawing  |-> MapPut(w.drawing, i, geometry),
     selected |-> IF select THEN w.selected \cup {i} ELSE w.selected]

Built(w, i) == Entity(i, w.entities[i].gen + 1)

\* World::delete_entity, its Err for a dead entity dropped by let _ =
delete_entity(w, e) ==
    IF ~IsLive(w, e) THEN w
    ELSE [entities |-> [w.entities EXCEPT ![e.id].alive = FALSE],
          drawing  |-> MapRemove(w.drawing, e.id),
          selected |-> w.selected \ {e.id}]

\* ApplicationContext::unselect_all and ApplicationContext::select
unselect_all(w) == [w EXCEPT !.selected = {}]
select(w, e) == [w EXCEPT !.selected = @ \cup {e.id}]

\* ApplicationContext::entities_under_point(..).next(): whatever the
\* context finds under the cursor, an entity with a DrawingObject or nothing
entities_under_point(w, location) ==
    {<<>>} \cup {<<Entity(i, w.entities[i].gen)>> :
                    i \in {j \in DOMAIN w.drawing : w.entities[j].alive}}

DoNothing(w, suppress) ==
    [trans |-> <<>>, world |-> w, suppress |-> suppress, panic |-> FALSE]
ChangeState(state, w) ==
    [trans |-> <<state>>, world |-> w, suppress |-> FALSE, panic |-> FALSE]
Panicked(w) ==
    [trans |-> <<>>, world |-> w, suppress |-> FALSE, panic |-> TRUE]

\* drawing_objects.get_mut(entity).unwrap().geometry = geometry
SetGeometry(w, e, geometry) ==
    [w EXCEPT !.drawing = MapPut(@, e.id, geometry)]

HasPoint(w, e) ==
    /\ IsLive(w, e)
    /\ e.id \in DOMAIN w.drawing
    /\ w.drawing[e.id].kind = "Point"

\* on_mouse_down of the nested states of mode top
NestedOnMouseDown(top, n, w, location) ==
    CASE top \in {"AddLineMode", "AddPointMode"} /\ n.state = "WaitingToPlace" ->
           {ChangeState([state |-> IF top = "AddLineMode"
                                   THEN "PlacingStartPoint" ELSE "PlacingPoint",
                         temp_point |-> Built(w, i)],
                        Build(unselect_all(w), i, GPoint(location), TRUE)) :
               i \in FreeIds(w)}
      [] n.state = "WaitingToPlaceEnd" ->
           UNION {LET w1 == Build(unselect_all(w), i, GPoint(location), TRUE)
                  IN  IF ~HasPoint(w1, n.temp_start) THEN {Panicked(w1)}
                      ELSE {ChangeState(
                               [state |-> "PlacingEndPoint",
                                temp_start |-> n.temp_start,
                                temp_end |-> Built(w, i),
                                temp_line |-> Built(w1, j)],
                               Build(w1, j,
                                     GLine(w1.drawing[n.temp_start.id].location,
                                           location), FALSE)) :
                              j \in FreeIds(w1)} :
                  i \in FreeIds(w)}
      [] n.state = "WaitingToSelect" ->
           {IF hit = <<>> THEN DoNothing(unselect_all(w), FALSE)
            ELSE IF ~IsLive(w, hit[1]) THEN Panicked(w)
            ELSE ChangeState([state |-> "DraggingSelection",
                              previous_location |-> location],
                             select(w, hit[1])) :
               hit \in entities_under_point(w, location)}
      [] OTHER -> {DoNothing(w, FALSE)}

\* on_mouse_up of the nested states
NestedOnMouseUp(n, w, location) ==
    CASE n.state = "PlacingStartPoint" ->
           {ChangeState([state |-> "WaitingToPlaceEnd",
                         temp_start |-> n.temp_point], w)}
      [] n.state = "PlacingEndPoint" ->
           {ChangeState([state |-> "WaitingToPlace"],
                        delete_entity(delete_entity(w, n.temp_start),
                                      n.temp_end))}
      [] n.state = "PlacingPoint" ->
           {ChangeState([state |-> "WaitingToPlace"], w)}
      [] n.state = "DraggingSelection" ->
           {ChangeState([state |-> "WaitingToSelect"], w)}
      [] OTHER -> {DoNothing(w, FALSE)}

\* on_mouse_move of the nested states of the two drawing modes
NestedOnMouseMove(n, w, location) ==
    CASE n.state \in {"PlacingStartPoint", "PlacingPoint"} ->
           IF ~IsLive(w, n.temp_point) \/ n.temp_point.id \notin DOMAIN w.drawing
           THEN {Panicked(w)}
           ELSE {DoNothing(SetGeometry(w, n.temp_point, GPoint(location)), FALSE)}
      [] n.state = "PlacingEndPoint" ->
           IF \/ ~IsLive(w, n.temp_end) \/ n.temp_end.id \notin DOMAIN w.drawing
              \/ ~HasPoint(w, n.temp_start)
              \/ ~IsLive(w, n.temp_line) \/ n.temp_line.id \notin DOMAIN w.drawing
           THEN {Panicked(w)}
           ELSE {DoNothing(
                    SetGeometry(SetGeometry(w, n.temp_end, GPoint(location)),
                                n.temp_line,
                                GLine(w.drawing[n.temp_start.id].location,
                                      location)), FALSE)}
      [] OTHER -> {DoNothing(w, TRUE)}

\* on_cancelled of the nested states: State::on_cancelled does nothing
\* unless a state overrides it
NestedOnCancelled(n, w) ==
    CASE n.state \in {"PlacingStartPoint", "PlacingPoint"} ->
           delete_entity(w, n.temp_point)
      [] n.state = "PlacingEndPoint" ->
           delete_entity(delete_entity(delete_entity(w, n.temp_start),
                                       n.temp_end), n.temp_line)
      [] OTHER -> w

IdleAnyKeyChanges(key) == <<AddPointModeDefault>>

\* Idle::on_key_pressed
IdleOnKeyPressed(key) ==
    CASE key = "A" -> <<[state |-> "AddArcMode"]>>
      [] key = "P" -> <<AddPointModeDefault>>
      [] key = "L" -> <<AddLineModeDefault>>
      [] OTHER     -> <<>>

Handling == mode.state \in {"Idle", "AddLineMode", "AddPointMode"}

\* handle_transition of the mode for the nested handler's outcome o, the
\* Transition ret the mode returns to Model::handle_event, and what the
\* handler leaves of the World
Handled(op, arg, o, ret) ==
    /\ mode' = IF o.panic THEN [state |-> "Panicked"]
               ELSE IF ret # <<>> THEN ret[1]
               ELSE IF o.trans # <<>> THEN [mode EXCEPT !.nested = o.trans[1]]
               ELSE mode
    /\ entities' = o.world.entities
    /\ drawing' = o.world.drawing
    /\ selected' = o.world.selected
    /\ lastCall' = [op |-> op, from |-> mode.state, arg |-> arg,
                    ret |-> IF o.panic THEN "panic"
                            ELSE IF ret = <<>> THEN "DoNothing" ELSE "ChangeState",
                    redraw |-> ~o.suppress]
    /\ UNCHANGED <<space, cache, syncBounds, spatialRel, pc>>
    /\ UNCHANGED <<names, name_table, bookkeeping, buffer>>

\* Model::on_mouse_down
OnMouseDown(location) ==
    /\ Handling
    /\ \E o \in NestedOnMouseDown(mode.state, mode.nested, WorldOf, location) :
          Handled("on_mouse_down", location, o, <<>>)

\* Model::on_mouse_up
OnMouseUp(location) ==
    /\ Handling
    /\ \E o \in NestedOnMouseUp(mode.nested, WorldOf, location) :
          Handled("on_mouse_up", location, o, <<>>)

\* Model::on_mouse_move: Idle does not pass the event to its nested state
OnMouseMove(location) ==
    /\ Handling
    /\ \E o \in IF mode.state = "Idle" THEN {DoNothing(WorldOf, TRUE)}
                ELSE NestedOnMouseMove(mode.nested, WorldOf, location) :
          Handled("on_mouse_move", location, o, <<>>)

\* Model::on_key_pressed: Escape cancels a drawing mode, its nested states
\* keep State::on_key_pressed, which does nothing
OnKeyPressed(key) ==
    /\ Handling
    /\ IF mode.state = "Idle"
       THEN Handled("on_key_pressed", key, DoNothing(WorldOf, FALSE),
                    IdleOnKeyPressed(key))
       ELSE IF key = "Escape"
       THEN Handled("on_key_pressed", key,
                    DoNothing(NestedOnCancelled(mode.nested, WorldOf), FALSE),
                    <<IdleDefault>>)
       ELSE Handled("on_key_pressed", key, DoNothing(WorldOf, FALSE), <<>>)

InitModes ==
    /\ space = SpaceDefault
    /\ lastCall = NoCall
    /\ entities = [i \in ModeIds |-> [gen |-> 0, alive |-> FALSE]]
    /\ drawing = EmptyMap
    /\ cache = EmptyMap
    /\ syncBounds = SyncBoundsNew
    /\ spatialRel = SpatialRelationNew
    /\ pc = "idle"
    /\ AppInit

NextModes ==
    \/ \E location \in MouseLocations : OnMouseDown(location)
    \/ \E location \in MouseLocations : OnMouseUp(location)
    \/ \E location \in MouseLocations : OnMouseMove(location)
    \/ \E key \in Keys : OnKeyPressed(key)

SpecModes == InitModes /\ [][NextModes]_vars

----------------------------------------------------------------------------
(* Commands, the ChangeRecorder and the UndoRedoBuffer.  A Change is its two
   closures, each one write to the storage of DrawingObject *)

MaxChanges    == 2  \* change sets a buffer holds before the model stops executing
MaxCommandLen == 2  \* calls a Command makes on the ChangeRecorder

InsertOp(entity, component) ==
    [kind |-> "insert", entity |-> entity, component |-> component]
RemoveOp(entity) == [kind |-> "remove", entity |-> entity]
NoOp == [kind |-> "nothing"]

\* ChangeRecorder::get_component: a copy of the entity's component, if any
get_component(storage, entity) ==
    IF entity \in DOMAIN storage THEN <<storage[entity]>> ELSE <<>>

\* ChangeRecorder::set_component: the Change it pushes
set_component(storage, entity, component) ==
    LET previous_value == get_component(storage, entity)
    IN  [forward  |-> InsertOp(entity, component),
         backward |-> IF previous_value # <<>>
                      THEN InsertOp(entity, previous_value[1])
                      ELSE RemoveOp(entity)]

\* ChangeRecorder::delete_component: the Change it pushes
delete_component(storage, entity) ==
    LET previous_value == get_component(storage, entity)
    IN  [forward  |-> RemoveOp(entity),
         backward |-> IF previous_value # <<>>
                      THEN InsertOp(entity, previous_value[1])
                      ELSE NoOp]

\* the calls a Command can make on the recorder
RecorderCalls ==
    {[call |-> "set_component", entity |-> i, component |-> g] :
        i \in RawIds, g \in WorldGeometries}
    \cup {[call |-> "delete_component", entity |-> i] : i \in RawIds}

Commands == UNION {[1..n -> RecorderCalls] : n \in 1..MaxCommandLen}

\* Command::execute(&mut recorder) and ChangeRecorder::into_changes: the
\* recorder reads the World and pushes one Change for each call
Record(storage, command) ==
    [k \in DOMAIN command |->
        IF command[k].call = "set_component"
        THEN set_component(storage, command[k].entity, command[k].component)
        ELSE delete_component(storage, command[k].entity)]

\* one of a Change's closures, called with the World
RunOp(storage, op) ==
    CASE op.kind = "insert" -> MapPut(storage, op.entity, op.component)
      [] op.kind = "remove" -> MapRemove(storage, op.entity)
      [] OTHER -> storage

RECURSIVE apply(_, _)
\* ChangeSet::apply: every forward closure, first to last
apply(changeset, storage) ==
    IF changeset = <<>> THEN storage
    ELSE apply(Tail(changeset), RunOp(storage, Head(changeset).forward))

RECURSIVE revert(_, _)
\* ChangeSet::revert: every backward closure, last to first
revert(changeset, storage) ==
    IF changeset = <<>> THEN storage
    ELSE revert(SubSeq(changeset, 1, Len(changeset) - 1),
                RunOp(storage, changeset[Len(changeset)].backward))

\* UndoRedoBuffer::can_undo and UndoRedoBuffer::can_redo
can_undo(b) == b.cursor > 0
can_redo(b) == b.cursor <= Len(b.changes)

UndoVars == <<space, entities, cache, syncBounds, spatialRel,
              names, name_table, bookkeeping, mode, selected>>

\* UndoRedoBuffer::execute
Execute(command) ==
    /\ pc = "idle"
    /\ Len(buffer.changes) < MaxChanges
    /\ buffer' = [buffer EXCEPT !.changes = Append(@, Record(drawing, command))]
    /\ lastCall' = [op |-> "execute"]
    /\ UNCHANGED <<drawing, pc>>
    /\ UNCHANGED UndoVars

\* UndoRedoBuffer::undo
Undo ==
    /\ pc = "idle"
    /\ IF ~can_undo(buffer)
       THEN /\ lastCall' = [op |-> "undo", ret |-> "Err"]
            /\ UNCHANGED <<buffer, drawing>>
       ELSE /\ drawing' = revert(buffer.changes[buffer.cursor], drawing)
            /\ buffer' = [buffer EXCEPT !.cursor = @ - 1]
            /\ lastCall' = [op |-> "undo", ret |-> "Ok"]
    /\ UNCHANGED pc
    /\ UNCHANGED UndoVars

\* UndoRedoBuffer::redo: self.changes[self.cursor] panics past the last
\* change set
Redo ==
    /\ pc = "idle"
    /\ IF ~can_redo(buffer)
       THEN /\ lastCall' = [op |-> "redo", ret |-> "Err"]
            /\ UNCHANGED <<buffer, drawing, pc>>
       ELSE IF buffer.cursor + 1 \notin DOMAIN buffer.changes
       THEN /\ lastCall' = [op |-> "redo", ret |-> "panic"]
            /\ pc' = "aborted"
            /\ UNCHANGED <<buffer, drawing>>
       ELSE /\ drawing' = apply(buffer.changes[buffer.cursor + 1], drawing)
            /\ buffer' = [buffer EXCEPT !.cursor = @ + 1]
            /\ lastCall' = [op |-> "redo", ret |-> "Ok"]
            /\ UNCHANGED pc
    /\ UNCHANGED UndoVars

InitUndo ==
    /\ space = SpaceDefault
    /\ lastCall = NoCall
    /\ entities = [i \in RawIds |-> [gen |-> 1, alive |-> TRUE]]
    /\ drawing = EmptyMap
    /\ cache = EmptyMap
    /\ syncBounds = SyncBoundsNew
    /\ spatialRel = SpatialRelationNew
    /\ pc = "idle"
    /\ AppInit

NextUndo ==
    \/ \E command \in Commands : Execute(command)
    \/ Undo
    \/ Redo

SpecUndo == InitUndo /\ [][NextUndo]_vars

----------------------------------------------------------------------------
(* Properties of Space *)

Elements == space.quadtree.elements

\* the item ids of the live tree records of an entity
RecordsOf(sp, e) ==
    {k \in DOMAIN sp.quadtree.elements : sp.quadtree.elements[k].entity = e}

\* a query box one unit larger than the given box on every side
Covering(b) ==
    [bottom_left |-> Pt(b.bottom_left.x - 1, b.bottom_left.y - 1),
     top_right   |-> Pt(b.top_right.x + 1, b.top_right.y + 1)]

\* C1: ids and the tree are in lock-step: every item id in ids names a live
\* tree record of that same entity, and every live tree record is the one
\* its entity's ids entry names.
C1_LockStep ==
    space.panicked = "no" =>
        /\ \A e \in DOMAIN space.ids :
              /\ space.ids[e] \in DOMAIN Elements
              /\ Elements[space.ids[e]].entity = e
        /\ \A k \in DOMAIN Elements :
              /\ Elements[k].entity \in DOMAIN space.ids
              /\ space.ids[Elements[k].entity] = k

\* C2: the tree holds at most one live record per entity, so len() is the
\* number of distinct entities present.
C2_OneRecordPerEntity ==
    space.panicked = "no" =>
        /\ \A j, k \in DOMAIN Elements :
              Elements[j].entity = Elements[k].entity => j = k
        /\ len(space) = Cardinality({Elements[k].entity : k \in DOMAIN Elements})

\* C3: modify(entity, b1) followed by modify(entity, b2), b2 # b1, leaves
\* exactly one record for the entity, carrying b2, returned by a query over
\* a box covering b2, and no record of the entity carrying b1.
C3_ModifyTwice ==
    [][(/\ lastCall.op = "modify" /\ lastCall'.op = "modify"
        /\ lastCall'.entity = lastCall.entity
        /\ lastCall'.bounds # lastCall.bounds
        /\ space'.panicked = "no")
       => LET e  == lastCall'.entity
              b1 == lastCall.bounds
              b2 == lastCall'.bounds
          IN  /\ Cardinality(RecordsOf(space', e)) = 1
              /\ \A k \in RecordsOf(space', e) :
                    space'.quadtree.elements[k].bounds = b2
              /\ SpatialEntityNew(b2, e) \in query_region(space', Covering(b2))
              /\ SpatialEntityNew(b1, e) \notin iter(space')]_vars

\* C4: once remove(entity) or remove_by_id(entity.id()) has returned, ids
\* has no entry for the entity and the tree holds no record of it.
C4_RemoveLeavesNothing ==
    [][\A e \in EntitySet :
          (SpaceRemove(e) \/ (SpaceRemoveById(e.id) /\ e \in DOMAIN space.ids))
          => /\ e \notin DOMAIN space'.ids
             /\ RecordsOf(space', e) = {}
             /\ \A b \in Boxes :
                   SpatialEntityNew(b, e) \notin query_region(space', Covering(b))]_vars

\* C6: the world bound only grows: after every call that returns, the
\* tree's rectangle contains the rectangle it had before, and after a
\* modify with bounds outside the world it also contains the new box.
C6_WorldOnlyGrows ==
    [][space'.panicked = "no" =>
          /\ RectInside(space'.quadtree.bb, space.quadtree.bb)
          /\ (lastCall'.op = "modify" =>
                 RectInside(space'.quadtree.bb, aabb(lastCall'.bounds)))]_vars

\* C7: after a modify whose bounds lie outside the world bound, every other
\* entity that had a record still has exactly one record, with its original
\* bounds, inside the new world bound and returned by a query there.
C7_GrowthKeepsRecords ==
    [][\A e \in EntitySet, b \in Boxes :
          (SpaceModify(e, b) /\ ~contains_rect(space.quadtree.bb, aabb(b)))
          => \A k \in DOMAIN Elements :
                Elements[k].entity # e =>
                   LET old == Elements[k]
                   IN  /\ \E j \in DOMAIN space'.quadtree.elements :
                             space'.quadtree.elements[j] = old
                       /\ Cardinality(RecordsOf(space', old.entity))
                             = Cardinality(RecordsOf(space, old.entity))
                       /\ RectInside(space'.quadtree.bb, aabb(old.bounds))
                       /\ old \in query_region(space', Covering(old.bounds))]_vars

\* C8: the panic of insert_entity is never reached: every record inserted
\* or reinserted fits inside the tree's world bound.
C8_InsertNeverPanics == space.panicked # "insert"

----------------------------------------------------------------------------
(* Properties of the update cycle *)

HoldsGeometry(i) == is_alive(i) /\ i \in DOMAIN drawing

\* C5: at the end of an update cycle Space holds a record (e, b) exactly
\* when e is a live entity holding a Geometry g with bounding_box(g) = b.
C5_SpaceMatchesStore ==
    pc = "done" =>
        /\ \A k \in DOMAIN Elements :
              LET r == Elements[k]
              IN  /\ HoldsGeometry(r.entity.id)
                  /\ r.entity = EntityAt(r.entity.id)
                  /\ r.bounds = bounding_box(drawing[r.entity.id])
        /\ \A i \in RawIds :
              HoldsGeometry(i) =>
                 SpatialEntityNew(bounding_box(drawing[i]), EntityAt(i))
                    \in iter(space)

\* C9: after SyncBounds::run, for every raw id that had an event in the
\* consumed batch, the cache holds bounding_box(geometry) if a live entity
\* with that id holds a Geometry, and no entry otherwise.
C9_CacheMatchesGeometry ==
    pc = "synced" =>
        \A i \in syncBounds.to_update \cup syncBounds.removed :
            IF HoldsGeometry(i)
            THEN i \in DOMAIN cache /\ cache[i] = bounding_box(drawing[i])
            ELSE i \notin DOMAIN cache

\* C10: after SpatialRelation::run, for every raw id that had an event in
\* the consumed BoundingBox change log, Space holds exactly one record for
\* the live entity with that id, carrying the cache's bounds, if the cache
\* has an entry for it, and no record for that id otherwise.
C10_SpaceMatchesCache ==
    pc = "done" =>
        \A i \in spatialRel.seen :
            LET recs == {k \in DOMAIN Elements : Elements[k].entity.id = i}
            IN  IF i \in DOMAIN cache
                THEN /\ Cardinality(recs) = 1
                     /\ \A k \in recs :
                           Elements[k] = SpatialEntityNew(cache[i], EntityAt(i))
                ELSE recs = {}

\* C11: the bounds pass completes before the spatial-relation pass starts,
\* so at the end of a cycle every live entity whose Geometry was inserted or
\* modified before that cycle has a Space record carrying the bounding box
\* of its current Geometry (not one cycle later).
C11_SameCycle ==
    pc = "done" =>
        \A i \in syncBounds.to_update :
            HoldsGeometry(i) =>
                SpatialEntityNew(bounding_box(drawing[i]), EntityAt(i))
                    \in iter(space)

\* C12: after System::setup of the sync systems and before any update cycle,
\* every live entity holding a Geometry has a BoundingBox cache entry and
\* exactly one Space record, and Space holds no other records.
C12_SetupCatchesUp ==
    pc = "ready" =>
        /\ \A i \in RawIds :
              HoldsGeometry(i) =>
                 /\ i \in DOMAIN cache
                 /\ Cardinality(RecordsOf(space, EntityAt(i))) = 1
        /\ \A k \in DOMAIN Elements :
              /\ HoldsGeometry(Elements[k].entity.id)
              /\ Elements[k].entity = EntityAt(Elements[k].entity.id)

\* the state of a Space up to the naming of item ids: how many tree records
\* every (bounds, entity) pair has, and the record (if any) every ids entry names
SpaceView(sp) ==
    [records |-> [r \in iter(sp) |->
                     Cardinality({k \in DOMAIN sp.quadtree.elements :
                                     sp.quadtree.elements[k] = r})],
     table   |-> [e \in DOMAIN sp.ids |->
                     {sp.quadtree.elements[k] :
                        k \in {sp.ids[e]} \cap DOMAIN sp.quadtree.elements}]]

\* C13: the transitions of Space are idempotent: applying the modify of an
\* Inserted or Modified event a second time with the same entity and bounds,
\* or the removal of a Removed event a second time, leaves the tree and the
\* side table as they were after the first delivery.
C13_Idempotent ==
    [][/\ (/\ lastCall.op = "modify"
           /\ lastCall' = lastCall
           /\ space'.panicked = "no")
          => SpaceView(space') = SpaceView(space)
       /\ \A id \in RawIds :
             (/\ SpaceRemoveById(id)
              /\ \A e \in DOMAIN space.ids : e.id # id)
             => SpaceView(space') = SpaceView(space)]_vars

\* C14: Space::clear drops every record from the tree and the side table
\* (len() = 0, ids empty) and leaves the world bound exactly as it was
\* before the call, also when a growth rebuild had enlarged it.
C14_ClearKeepsWorld ==
    [][SpaceClear =>
          /\ len(space') = 0
          /\ iter(space') = {}
          /\ space'.ids = EmptyMap
          /\ space'.quadtree.bb = space.quadtree.bb]_vars

\* a clear has just dropped records from a Space whose world had been
\* enlarged beyond the default bound
C14_Witness ==
    /\ lastCall.op = "clear"
    /\ lastCall.dropped > 0
    /\ len(space) = 0
    /\ space.ids = EmptyMap
    /\ space.quadtree.bb # default_tree.bb
    /\ RectInside(space.quadtree.bb, default_tree.bb)

\* the points and the radii asked of Space::query_point
QueryPoints == {Pt(6, 5), Pt(3, 0), Pt(0, 0)}
QueryRadii  == {1, 2}

\* C15: query_point(point, radius) returns exactly the records query_region
\* returns for the axis-aligned square from point - (radius, radius) to
\* point + (radius, radius), the bounding box of the circle.
C15_QueryPointIsSquare ==
    space.panicked = "no" =>
        \A point \in QueryPoints, radius \in QueryRadii :
            query_point(space, point, radius)
               = query_region(space,
                    BoundingBoxNew(Pt(point.x - radius, point.y - radius),
                                   Pt(point.x + radius, point.y + radius)))

----------------------------------------------------------------------------
(* Properties of the algorithms *)

\* C16: for any non-empty sequence of points, in any order, around returns
\* the box whose bottom-left is the componentwise minimum and whose
\* top-right is the componentwise maximum of all the points.
C16_AroundIsMinMax ==
    (lastCall.op = "around" /\ lastCall.points # <<>>) =>
        LET ps == {lastCall.points[k] : k \in DOMAIN lastCall.points}
            xs == {q.x : q \in ps}
            ys == {q.y : q \in ps}
            lo(S) == CHOOSE v \in S : \A w \in S : v <= w
            hi(S) == CHOOSE v \in S : \A w \in S : v >= w
        IN  lastCall.ret = <<[bottom_left |-> Pt(lo(xs), lo(ys)),
                              top_right   |-> Pt(hi(xs), hi(ys))]>>

\* C17: for every Arc the box returned by bounding_box contains the arc's
\* start point, its end point and the circle point at each of the angles
\* 0, pi/2, pi, 3*pi/2 that the arc's span contains; for a full circle it
\* is the square centre +/- radius.
C17_ArcBoxContainsExtremes ==
    lastCall.op = "bounding_box" =>
        LET arc == lastCall.arc
            box == lastCall.ret
            c   == arc.centre
            r   == arc.radius
            inside(q) == /\ box.bottom_left.x <= q.x /\ q.x <= box.top_right.x
                         /\ box.bottom_left.y <= q.y /\ q.y <= box.top_right.y
        IN  /\ inside(ArcStart(arc))
            /\ inside(ArcEnd(arc))
            /\ \A a \in 0..3 :
                  contains_angle(arc, a) =>
                     inside(Pt(c.x + r * CosQ(a), c.y + r * SinQ(a)))
            /\ Abs(arc.sweep_angle) = 4 =>
                  box = [bottom_left |-> Pt(c.x - r, c.y - r),
                         top_right   |-> Pt(c.x + r, c.y + r)]

\* the perpendicular distance of p from the line through a and b (from a
\* when a = b) does not exceed tol
NearChord(p, a, b, tol) ==
    LET cross == (b.x - a.x) * (p.y - a.y) - (b.y - a.y) * (p.x - a.x)
        len2  == (b.x - a.x) * (b.x - a.x) + (b.y - a.y) * (b.y - a.y)
        pa2   == (p.x - a.x) * (p.x - a.x) + (p.y - a.y) * (p.y - a.y)
    IN  IF len2 = 0 THEN pa2 <= tol * tol
        ELSE cross * cross <= tol * tol * len2

NearSegment(p, a, b, tol) ==
    LET len2 == (b.x - a.x) * (b.x - a.x) + (b.y - a.y) * (b.y - a.y)
        dot  == (p.x - a.x) * (b.x - a.x) + (p.y - a.y) * (b.y - a.y)
        pa2  == (p.x - a.x) * (p.x - a.x) + (p.y - a.y) * (p.y - a.y)
        pb2  == (p.x - b.x) * (p.x - b.x) + (p.y - b.y) * (p.y - b.y)
    IN  IF len2 = 0 \/ dot <= 0 THEN pa2 <= tol * tol
        ELSE IF dot >= len2 THEN pb2 <= tol * tol
        ELSE NearChord(p, a, b, tol)

\* C19: every point of the original curve lies within tolerance of the
\* simplified curve; checked for the vertices of the original curve against
\* the chain of segments through the kept points.
C19_WithinTolerance ==
    (lastCall.op = "simplify" /\ lastCall.points # <<>>) =>
        \A k \in DOMAIN lastCall.points :
            \E j \in DOMAIN lastCall.ret :
                NearSegment(lastCall.points[k], lastCall.ret[j],
                            lastCall.ret[Min(j + 1, Len(lastCall.ret))],
                            lastCall.tolerance)

\* C20: Line::closest_point returns a single point: the start point when
\* t = dot(target - start, displacement) / |displacement|^2 is <= 0, the end
\* point when t >= 1, the projected point otherwise, and the line's single
\* point for a zero-length line.
C20_ClosestPointClamps ==
    lastCall.op = "closest_point" =>
        LET line == lastCall.line
            ret  == lastCall.ret
            dx   == line.end.x - line.start.x
            dy   == line.end.y - line.start.y
            len2 == dx * dx + dy * dy
            dot  == (lastCall.target.x - line.start.x) * dx
                       + (lastCall.target.y - line.start.y) * dy
            is(qx, qy, qd) == /\ ret.kind = "One"
                              /\ ret.x * qd = qx * ret.d
                              /\ ret.y * qd = qy * ret.d
        IN  IF len2 = 0 THEN is(line.start.x, line.start.y, 1)
            ELSE IF dot <= 0 THEN is(line.start.x, line.start.y, 1)
            ELSE IF dot >= len2 THEN is(line.end.x, line.end.y, 1)
            ELSE is(line.start.x * len2 + dot * dx,
                    line.start.y * len2 + dot * dy, len2)

\* C21: Arc::from_three_points returns None, without panicking or tripping
\* an assertion, for every collinear triple of points (coincident points
\* included), and Some(arc) for every non-collinear triple.
C21_ThreePointsOption ==
    lastCall.op = "from_three_points" =>
        LET a == lastCall.start
            b == lastCall.middle
            c == lastCall.end
            collinear == (b.x - a.x) * (c.y - a.y) = (b.y - a.y) * (c.x - a.x)
        IN  IF collinear THEN lastCall.ret.kind = "None"
            ELSE lastCall.ret.kind = "Some"

\* C22: for every arc, of either sweep direction, and every tolerance the
\* sequence yielded by Arc::approximate is finite, consists of steps + 1
\* evenly spaced points, starts exactly at arc.start() and ends exactly at
\* arc.end().
C22_ApproximateEndsAtEnd ==
    lastCall.op = "approximate" =>
        LET ret   == lastCall.ret
            sweep == lastCall.arc.sweep_angle
            last  == ret[Len(ret)]
        IN  /\ Len(ret) = lastCall.steps + 1
            /\ ret[1].n = 0
            /\ \A k \in 2..Len(ret) :
                  (ret[k].n - ret[k - 1].n) * ret[2].d
                     = (ret[2].n - ret[1].n) * ret[k].d
            \* the last point is the circle point at the end angle: the two
            \* angles differ by whole turns of 12 units
            /\ (last.n - sweep * last.d) % (12 * last.d) = 0

\* C23: fillet_three_points never panics; it returns
\* Err(InsufficientLength{required, available}), with available the shorter
\* edge's length and required the trim length radius * tan(|turn| / 2),
\* whenever the trim length exceeds the shorter edge, and
\* Err(CollinearLines) whenever the turn angle is 0 or pi.  Stated for two
\* edges of positive length: they are collinear when their cross product is 0
\* and otherwise meet at a right angle, where the trim length is the radius.
C23_FilletReportsErrors ==
    lastCall.op = "fillet_three_points" =>
        LET a == lastCall.start
            b == lastCall.corner
            c == lastCall.end
            first  == Abs(b.x - a.x) + Abs(b.y - a.y)
            second == Abs(c.x - b.x) + Abs(c.y - b.y)
            shorter == IF first <= second THEN first ELSE second
            cross == (b.x - a.x) * (c.y - b.y) - (b.y - a.y) * (c.x - b.x)
        IN  /\ lastCall.ret.kind # "Panic"
            /\ shorter > 0 /\ cross = 0 =>
                  lastCall.ret.kind = "CollinearLines"
            /\ shorter > 0 /\ cross # 0 /\ lastCall.radius > shorter =>
                  lastCall.ret = [kind |-> "InsufficientLength",
                                  required |-> lastCall.radius,
                                  available |-> shorter]

----------------------------------------------------------------------------
(* Properties of the name table, the demo's modes and the undo buffer *)

\* C24: after NameTableBookkeeping::setup and after every later run, whatever
\* Names were inserted, modified and removed and whatever entities were
\* deleted in between (names being unique), the NameTable maps a name to an
\* entity if and only if that live entity holds that Name.
C24_TableMatchesNames ==
    pc = "synced" =>
        \A n \in Names, e \in EntitiesUpTo(MaxNameGen) :
            (n \in DOMAIN name_table /\ name_table[n] = e)
                <=> /\ entities[e.id].alive
                    /\ entities[e.id].gen = e.gen
                    /\ e.id \in DOMAIN names
                    /\ names[e.id] = n

\* a run has read a Removed and an Inserted or Modified event: an entity was
\* deleted, another one is in the table
C24_Witness ==
    /\ pc = "synced"
    /\ bookkeeping.inserted # {}
    /\ \E i \in RawIds : ~entities[i].alive /\ entities[i].gen >= 1
    /\ DOMAIN name_table # {}

\* the entities the nested state n holds for an unfinished gesture
TemporariesOf(n) ==
    CASE n.state \in {"PlacingStartPoint", "PlacingPoint"} -> {n.temp_point}
      [] n.state = "WaitingToPlaceEnd" -> {n.temp_start}
      [] n.state = "PlacingEndPoint" -> {n.temp_start, n.temp_end, n.temp_line}
      [] OTHER -> {}

\* C25: when Escape is pressed in AddPointMode or AddLineMode, in whichever
\* nested sub-state the mode is, the mode returns to Idle and no temporary
\* point or line entity of the unfinished gesture remains in the World.
C25_CancelCleansUp ==
    [][(mode.state \in {"AddLineMode", "AddPointMode"} /\ OnKeyPressed("Escape"))
          => /\ mode' = IdleDefault
             /\ \A e \in TemporariesOf(mode.nested) :
                   ~(entities'[e.id].alive /\ entities'[e.id].gen = e.gen)]_vars

C27_NoEventsNoChange ==
    [][/\ (SyncBoundsRun /\ syncBounds.changes = <<>>)
            => /\ cache' = cache
               /\ space' = space
               /\ spatialRel'.changes = spatialRel.changes
               /\ syncBounds'.changes = <<>>
       /\ (SpatialRelationRun /\ spatialRel.changes = <<>>)
            => /\ cache' = cache
               /\ space' = space
               /\ spatialRel'.changes = <<>>]_vars

\* SyncBounds has just run without an event to read, after an earlier run
\* gave an entity its BoundingBox
C27_Witness ==
    /\ pc = "synced"
    /\ syncBounds = SyncBoundsNew
    /\ DOMAIN cache # {}
    /\ space.quadtree.elements # EmptyMap

\* C28: UndoRedoBuffer never indexes outside its change list: undo returns
\* Err when cursor = 0, redo returns Err when there is no change set at the
\* cursor (cursor = changes.len()); otherwise they revert or apply the change
\* set at the cursor and move the cursor by one.
C28_UndoRedoInBounds ==
    [][/\ Undo =>
            IF buffer.cursor = 0
            THEN lastCall'.ret = "Err" /\ UNCHANGED <<buffer, drawing>>
            ELSE /\ lastCall'.ret = "Ok"
                 /\ buffer'.cursor = buffer.cursor - 1
                 /\ drawing' = revert(buffer.changes[buffer.cursor], drawing)
       /\ Redo =>
            IF buffer.cursor = Len(buffer.changes)
            THEN lastCall'.ret = "Err" /\ UNCHANGED <<buffer, drawing>>
            ELSE /\ lastCall'.ret = "Ok"
                 /\ buffer'.cursor = buffer.cursor + 1
                 /\ drawing' = apply(buffer.changes[buffer.cursor + 1], drawing)
      ]_vars

\* C29: after UndoRedoBuffer::execute(command) records a change set,
\* can_undo() is true and the next undo() reverts exactly that change set:
\* the cursor is just past the change set recorded last.
C29_ExecuteCanBeUndone ==
    lastCall.op = "execute" =>
        /\ buffer.cursor > 0
        /\ buffer.cursor = Len(buffer.changes)

RECURSIVE IsSubsequence(_, _)
\* the points of a, in their order, are points of b at increasing positions
IsSubsequence(a, b) ==
    IF a = <<>> THEN TRUE
    ELSE IF b = <<>> THEN FALSE
    ELSE IF Head(a) = Head(b) THEN IsSubsequence(Tail(a), Tail(b))
    ELSE IsSubsequence(a, Tail(b))

\* C30: for every input of three or more points and every tolerance simplify
\* terminates, and its output is an order-preserving subsequence of the
\* input in which no input position is emitted twice, beginning with the
\* first input point and ending with the last.
C30_SimplifySubsequence ==
    (lastCall.op = "simplify" /\ Len(lastCall.points) >= 3) =>
        LET ps  == lastCall.points
            ret == lastCall.ret
        IN  /\ Len(ret) >= 2
            /\ Len(ret) <= Len(ps)
            /\ ret[1] = ps[1]
            /\ ret[Len(ret)] = ps[Len(ps)]
            /\ IsSubsequence(SubSeq(ret, 2, Len(ret) - 1),
                             SubSeq(ps, 2, Len(ps) - 1))

\* simplify kept one interior point of four points and dropped the other
C30_Witness ==
    /\ lastCall.op = "simplify"
    /\ Len(lastCall.points) = 4
    /\ Len(lastCall.ret) = 3

====
